---- MODULE Spec2Model ----
(***************************************************************************)
(* Model of the DepHealthVisualizer backend (src/backend/index.js):        *)
(*   - analyzePackageHealth: the per-package health scorer,                *)
(*   - analyzeDependencies:  the sequential batch analyzer,                *)
(*   - the HTTP handlers POST /api/analyze, POST /api/analyze/github and   *)
(*     GET /api/reports/:auditId around the in-memory store auditResults.  *)
(*                                                                         *)
(* Units.  The local healthScore of analyzePackageHealth is a JS double    *)
(* that only ever holds multiples of 0.5; it is kept here as an integer    *)
(* number of hundredths (5.0 is 500).  The health_score field of a record  *)
(* is kept in tenths (3.0 is 30), the precision Math.round(x * 10) / 10    *)
(* leaves.  Time is counted in clock ticks, TicksPerDay ticks to the day,  *)
(* so that a fraction of a day can elapse.                                 *)
(***************************************************************************)
EXTENDS Integers, Sequences, FiniteSets, TLC

VARIABLES
    \* one call of analyzePackageHealth, step by step
    pc, packageName, version, response, license, lastRelease,
    healthScore, weeklyDownloads, result,
    \* one call of analyzeDependencies, one step per loop iteration
    dependencies, replies, results, phase,
    \* the server: the audit store, the uuids handed out, the requests in
    \* flight with their local variables, and the last GET's answer
    auditResults, issued, requests, lastGet

scorerVars == <<pc, packageName, version, response, license, lastRelease,
                healthScore, weeklyDownloads, result>>

batchVars == <<dependencies, replies, results, phase>>

serverVars == <<auditResults, issued, requests, lastGet>>

vars == <<scorerVars, batchVars, serverVars>>

-----------------------------------------------------------------------------
(* Values *)

\* a property that is undefined / missing in a JS object
Absent == "<absent>"

\* null, and a present value v, for fields that hold a number or null
Null == <<>>
Some(v) == <<v>>

TicksPerDay == 24

\* Date.now(), in ticks
Clock == 8000 * TicksPerDay

\* packageData.time.modified / .created: missing, not a date, or a timestamp
NoTime == [kind |-> "absent", t |-> 0]
BadTime == [kind |-> "invalid", t |-> 0]
At(t) == [kind |-> "date", t |-> t]

BaseScore == 500
FallbackScore == 30
RecentDays == 30
ActiveDays == 180
StaleDays == 365
PopularDownloads == 1000000
KnownDownloads == 100000

-----------------------------------------------------------------------------
(* The scoring arithmetic of analyzePackageHealth *)

\* const license = latestInfo.license || 'Unknown'
licenseOf(raw) == IF raw = Absent \/ raw = "" THEN "Unknown" ELSE raw

\* mutant: Apache-2.0 counted with the permissive licenses
licenseFactorApachePermissive(lic) ==
    IF lic = "MIT" \/ lic = "ISC" \/ lic = "BSD-3-Clause" \/ lic = "Apache-2.0" THEN 200
    ELSE IF lic = "Unknown" \/ lic = "" THEN -100
    ELSE 0

\* License factor: the change of healthScore, in hundredths
licenseFactor(lic) ==
    IF lic = "MIT" \/ lic = "ISC" \/ lic = "BSD-3-Clause" THEN 200
    ELSE IF lic = "Apache-2.0" THEN 150
    ELSE IF lic = "Unknown" \/ lic = "" THEN -100
    ELSE 0

\* new Date(packageData.time?.modified || packageData.time?.created)
lastReleaseOf(time) ==
    IF time.modified.kind # "absent" THEN time.modified ELSE time.created

\* mutant: the first two tiers compared with <= instead of <
maintenanceFactorInclusive(last, now) ==
    IF last.kind # "date" THEN 0
    ELSE LET elapsed == now - last.t IN
         IF elapsed <= RecentDays * TicksPerDay THEN 200
         ELSE IF elapsed <= ActiveDays * TicksPerDay THEN 100
         ELSE IF elapsed > StaleDays * TicksPerDay THEN -100
         ELSE 0

\* Maintenance factor.  daysSinceLastRelease = elapsed / TicksPerDay is a real
\* number; d < n is decided as elapsed < n * TicksPerDay.  An Invalid Date
\* gives NaN, for which every comparison is false.
maintenanceFactor(last, now) ==
    IF last.kind # "date" THEN 0
    ELSE LET elapsed == now - last.t IN
         IF elapsed < RecentDays * TicksPerDay THEN 200
         ELSE IF elapsed < ActiveDays * TicksPerDay THEN 100
         ELSE IF elapsed > StaleDays * TicksPerDay THEN -100
         ELSE 0

\* const weeklyDownloads = packageData.downloads || 0
weeklyDownloadsOf(downloads) == IF downloads = Null THEN 0 ELSE downloads[1]

\* mutant: the tiers compared with >= instead of >
popularityFactorInclusive(w) ==
    IF w >= PopularDownloads THEN 100
    ELSE IF w >= KnownDownloads THEN 50
    ELSE 0

\* Popularity factor
popularityFactor(w) ==
    IF w > PopularDownloads THEN 100
    ELSE IF w > KnownDownloads THEN 50
    ELSE 0

\* Math.max(0, Math.min(10, healthScore))
clampScore(h) ==
    LET lo == IF h < 1000 THEN h ELSE 1000 IN IF lo > 0 THEN lo ELSE 0

\* mutant: Math.round(healthScore * 10), the division by 10 forgotten
roundScoreUndivided(h) == ((h + 5) \div 10) * 10

\* Math.round(healthScore * 10) / 10: hundredths to tenths, halves upwards
roundScore(h) == (h + 5) \div 10

\* lastRelease.toISOString().split('T')[0]: the calendar day of a timestamp
isoDate(t) == t \div TicksPerDay

-----------------------------------------------------------------------------
(* Registry replies *)

\* what GET https://registry.npmjs.org/<name> can answer
\*   fetch:  "ok" when the fetch promise resolves, "reject" on a network error
\*   ok:     response.ok
\*   parses: response.json() resolves to an object
\*   data:   the parsed body
PackageData(tag, hasVersions, versions, time, downloads, meta) ==
    [distTags |-> tag, hasVersions |-> hasVersions, versions |-> versions,
     time |-> time, downloads |-> downloads,
     maintainers |-> meta.maintainers, repository |-> meta.repository]

NoMeta == [maintainers |-> Null, repository |-> Absent]

EmptyData == PackageData(Absent, FALSE, <<>>, [modified |-> NoTime, created |-> NoTime],
                         Null, NoMeta)

Reply(fetch, ok, parses, data) ==
    [fetch |-> fetch, ok |-> ok, parses |-> parses, data |-> data]

FetchRejected == Reply("reject", FALSE, FALSE, EmptyData)
NotFound == Reply("ok", FALSE, FALSE, EmptyData)
Unparseable == Reply("ok", TRUE, FALSE, EmptyData)
Found(data) == Reply("ok", TRUE, TRUE, data)

-----------------------------------------------------------------------------
(* analyzePackageHealth *)

\* mutant: the fallback also reports downloads
fallbackRecordWithDownloads(name, ver, message) ==
    [dependency |-> name, version |-> ver, license |-> "Unknown",
     last_release |-> Null, health_score |-> FallbackScore, downloads |-> 0,
     error |-> message]

\* the record both catch clauses build, error apart
fallbackRecord(name, ver, message) ==
    [dependency |-> name, version |-> ver, license |-> "Unknown",
     last_release |-> Null, health_score |-> FallbackScore, error |-> message]

\* packageData['dist-tags']?.latest || 'latest'
latestVersionOf(data) == IF data.distTags = Absent THEN "latest" ELSE data.distTags

\* packageData.versions[latestVersion] can be read, and so can its license
hasLatestInfo(data) ==
    data.hasVersions /\ latestVersionOf(data) \in DOMAIN data.versions

\* mutant: the record carries the latest version, not the declared one
successRecordLatestVersion(name, ver, lic, last, score, data) ==
    [dependency |-> name, version |-> latestVersionOf(data), license |-> lic,
     last_release |-> Some(isoDate(last.t)),
     health_score |-> roundScore(clampScore(score)),
     maintainers |-> IF data.maintainers = Null THEN 0 ELSE data.maintainers[1],
     downloads |-> weeklyDownloadsOf(data.downloads),
     repository |-> data.repository]

\* the record of the success path
successRecord(name, ver, lic, last, score, data) ==
    [dependency |-> name, version |-> ver, license |-> lic,
     last_release |-> Some(isoDate(last.t)),
     health_score |-> roundScore(clampScore(score)),
     maintainers |-> IF data.maintainers = Null THEN 0 ELSE data.maintainers[1],
     downloads |-> weeklyDownloadsOf(data.downloads),
     repository |-> data.repository]

\* the whole call, for the callers that await it
analyzePackageHealth(name, ver, reply, now) ==
    IF reply.fetch = "reject" THEN fallbackRecord(name, ver, "fetch failed")
    ELSE IF ~reply.ok THEN fallbackRecord(name, ver, "Package not found")
    ELSE IF ~reply.parses THEN fallbackRecord(name, ver, "Unexpected token in JSON")
    ELSE IF ~hasLatestInfo(reply.data)
         THEN fallbackRecord(name, ver, "Cannot read properties of undefined")
    ELSE LET data == reply.data
             lic == licenseOf(data.versions[latestVersionOf(data)])
             last == lastReleaseOf(data.time)
             score == BaseScore + licenseFactor(lic) + maintenanceFactor(last, now)
                        + popularityFactor(weeklyDownloadsOf(data.downloads))
         IN IF last.kind # "date" THEN fallbackRecord(name, ver, "Invalid time value")
            ELSE successRecord(name, ver, lic, last, score, data)

-----------------------------------------------------------------------------
(* Inputs of the scorer *)

RawLicenses == {"MIT", "ISC", "BSD-3-Clause", "Apache-2.0", "Unknown", Absent, "",
                "GPL-3.0"}

\* ticks elapsed since the last release: around every tier boundary, a
\* fraction of a day before and after it, ten years, and a date in the future
ElapsedProbes ==
    {-TicksPerDay, 0, 10 * TicksPerDay, 29 * TicksPerDay,
     RecentDays * TicksPerDay - 1, RecentDays * TicksPerDay,
     179 * TicksPerDay, ActiveDays * TicksPerDay - 1, ActiveDays * TicksPerDay,
     StaleDays * TicksPerDay, StaleDays * TicksPerDay + 1, 366 * TicksPerDay,
     3650 * TicksPerDay}

DownloadProbes ==
    {0, 1, KnownDownloads - 1, KnownDownloads, KnownDownloads + 1,
     PopularDownloads - 1, PopularDownloads, PopularDownloads + 1, 2500000}

\* versions tables: the latest entry under a dist-tag, under the key 'latest',
\* or not there at all
VersionTables ==
    {("1.0.0" :> "GPL-3.0") @@ ("2.0.0" :> l) : l \in RawLicenses}
      \cup {("latest" :> l) : l \in RawLicenses}
      \cup {("1.0.0" :> "MIT")}

Times ==
    {[modified |-> At(Clock - e), created |-> NoTime] : e \in ElapsedProbes}
      \cup {[modified |-> NoTime, created |-> At(Clock - e)] : e \in ElapsedProbes}
      \cup {[modified |-> At(Clock - 10 * TicksPerDay),
             created |-> At(Clock - 400 * TicksPerDay)],
            [modified |-> NoTime, created |-> NoTime],
            [modified |-> BadTime, created |-> At(Clock - 10 * TicksPerDay)],
            [modified |-> NoTime, created |-> BadTime]}

Metas == {NoMeta, [maintainers |-> Some(2), repository |-> "git+https://host/repo.git"]}

ScoreReplies ==
    {FetchRejected, NotFound, Unparseable,
     Found(PackageData("2.0.0", FALSE, <<>>, [modified |-> NoTime, created |-> NoTime],
                       Null, NoMeta))}
      \cup {Found(PackageData(tag, TRUE, tbl, time, dl, meta)) :
              tag \in {Absent, "2.0.0"}, tbl \in VersionTables, time \in Times,
              dl \in {Null} \cup {Some(w) : w \in DownloadProbes}, meta \in Metas}

-----------------------------------------------------------------------------
(* One call of analyzePackageHealth, one step per statement group *)

NoResult == [none |-> TRUE]

-----------------------------------------------------------------------------
(* The HTTP handlers and the audit store *)

MaxRequests == 2

\* a request that has not arrived yet; auditId 0 and body 0 stand for none
IdleRequest ==
    [route |-> "none", at |-> "idle", parsed |-> FALSE, dependencies |-> <<>>,
     auditId |-> 0, results |-> <<>>, status |-> 0, body |-> 0]

NoReport == [none |-> TRUE]

ServerIdle ==
    /\ auditResults = <<>>
    /\ issued = 0
    /\ requests = [r \in 1..MaxRequests |-> IdleRequest]
    /\ lastGet = [auditId |-> 0, status |-> 0, report |-> NoReport]

ScoreInit ==
    /\ pc = "fetch"
    /\ packageName \in {"a"}
    /\ version \in {"1.0.0"}
    /\ response \in ScoreReplies
    /\ license = Absent
    /\ lastRelease = NoTime
    /\ healthScore = 0
    /\ weeklyDownloads = 0
    /\ result = NoResult
    /\ dependencies = <<>>
    /\ replies = <<>>
    /\ results = <<>>
    /\ phase = "idle"
    /\ ServerIdle

\* catch (error) { return { ... error: error.message } }
Catch(message) ==
    /\ pc' = "done"
    /\ result' = fallbackRecord(packageName, version, message)
    /\ UNCHANGED <<packageName, version, response, license, lastRelease,
                   healthScore, weeklyDownloads>>

Goto(label) ==
    /\ pc' = label
    /\ UNCHANGED <<packageName, version, response, result>>

\* const response = await fetch(registryUrl); if (!response.ok) throw ...
Fetch ==
    /\ pc = "fetch"
    /\ IF response.fetch = "reject" THEN Catch("fetch failed")
       ELSE IF ~response.ok THEN Catch("Package not found")
       ELSE Goto("json") /\ UNCHANGED <<license, lastRelease, healthScore, weeklyDownloads>>

\* const packageData = await response.json()
Json ==
    /\ pc = "json"
    /\ IF ~response.parses THEN Catch("Unexpected token in JSON")
       ELSE Goto("license") /\ UNCHANGED <<license, lastRelease, healthScore, weeklyDownloads>>

\* latestInfo, base score and license factor
LicenseStep ==
    /\ pc = "license"
    /\ IF ~hasLatestInfo(response.data) THEN Catch("Cannot read properties of undefined")
       ELSE /\ license' = licenseOf(response.data.versions[latestVersionOf(response.data)])
            /\ healthScore' = BaseScore + licenseFactor(license')
            /\ Goto("maintenance")
            /\ UNCHANGED <<lastRelease, weeklyDownloads>>

\* maintenance factor
MaintenanceStep ==
    /\ pc = "maintenance"
    /\ lastRelease' = lastReleaseOf(response.data.time)
    /\ healthScore' = healthScore + maintenanceFactor(lastRelease', Clock)
    /\ Goto("popularity")
    /\ UNCHANGED <<license, weeklyDownloads>>

\* popularity factor
PopularityStep ==
    /\ pc = "popularity"
    /\ weeklyDownloads' = weeklyDownloadsOf(response.data.downloads)
    /\ healthScore' = healthScore + popularityFactor(weeklyDownloads')
    /\ Goto("return")
    /\ UNCHANGED <<license, lastRelease>>

\* clamp, build the record; toISOString throws on an Invalid Date
ReturnStep ==
    /\ pc = "return"
    /\ IF lastRelease.kind # "date" THEN Catch("Invalid time value")
       ELSE /\ pc' = "done"
            /\ result' = successRecord(packageName, version, license, lastRelease,
                                       healthScore, response.data)
            /\ UNCHANGED <<packageName, version, response, license, lastRelease,
                           healthScore, weeklyDownloads>>

ScoreNext ==
    \/ Fetch /\ UNCHANGED <<batchVars, serverVars>>
    \/ Json /\ UNCHANGED <<batchVars, serverVars>>
    \/ LicenseStep /\ UNCHANGED <<batchVars, serverVars>>
    \/ MaintenanceStep /\ UNCHANGED <<batchVars, serverVars>>
    \/ PopularityStep /\ UNCHANGED <<batchVars, serverVars>>
    \/ ReturnStep /\ UNCHANGED <<batchVars, serverVars>>

\* the steps compute what the whole call computes
StepsAgree ==
    pc = "done" => result = analyzePackageHealth(packageName, version, response, Clock)

-----------------------------------------------------------------------------
(* analyzeDependencies *)

MaxDeps == 3

PackageNames == <<"a", "b", "c", "d", "e", "f">>
Names == {PackageNames[i] : i \in 1..MaxDeps}
Versions == {"1.0.0", "^2.0.0"}

\* Object.entries(dependencies): the entries of a mapping in iteration order,
\* as <<name, version>> pairs with distinct names
IsMapping(entries) ==
    \A i, j \in 1..Len(entries) : entries[i][1] = entries[j][1] => i = j

Mappings(n) ==
    {m \in UNION {[1..k -> Names \X Versions] : k \in 0..n} : IsMapping(m)}

\* mutant: the comparator a.health_score - b.health_score, ascending
RECURSIVE insertByScoreAscending(_, _)
insertByScoreAscending(r, sorted) ==
    IF sorted = <<>> THEN <<r>>
    ELSE IF Head(sorted).health_score <= r.health_score
         THEN <<Head(sorted)>> \o insertByScoreAscending(r, Tail(sorted))
         ELSE <<r>> \o sorted

\* results.sort((a, b) => b.health_score - a.health_score): the sort is stable,
\* so a record goes behind every record that does not score less
RECURSIVE insertByScore(_, _)
insertByScore(r, sorted) ==
    IF sorted = <<>> THEN <<r>>
    ELSE IF Head(sorted).health_score >= r.health_score
         THEN <<Head(sorted)>> \o insertByScore(r, Tail(sorted))
         ELSE <<r>> \o sorted

RECURSIVE sortByScore(_)
sortByScore(records) ==
    IF records = <<>> THEN <<>>
    ELSE insertByScore(records[Len(records)],
                       sortByScore(SubSeq(records, 1, Len(records) - 1)))

\* what awaiting analyzePackageHealth gives the loop: the call wraps its whole
\* body in try/catch, so its promise always resolves
awaitPackageHealth(name, ver, reply, now) ==
    [threw |-> FALSE, value |-> analyzePackageHealth(name, ver, reply, now)]

\* the record pushed for one entry, by the try or by the catch of the loop
entryRecord(entry, reply, now) ==
    LET got == awaitPackageHealth(entry[1], entry[2], reply, now) IN
    IF got.threw THEN fallbackRecord(entry[1], entry[2], "Analysis failed")
    ELSE got.value

\* the whole call: entries[i] is answered by registry[i]
analyzeDependencies(entries, registry, now) ==
    sortByScore([i \in 1..Len(entries) |-> entryRecord(entries[i], registry[i], now)])

\* registry replies for the batch: two failures, and successes that score
\* 10.0, 8.0, 5.0 and 3.0 (the last one ties with a failed entry)
DataOf(lic, elapsed, dl) ==
    PackageData("2.0.0", TRUE, ("2.0.0" :> lic),
                [modified |-> At(Clock - elapsed), created |-> NoTime], dl, NoMeta)

BatchReplies ==
    {NotFound,
     Found(PackageData("2.0.0", TRUE, ("2.0.0" :> "MIT"),
                       [modified |-> BadTime, created |-> NoTime], Null, NoMeta)),
     Found(DataOf("MIT", 10 * TicksPerDay, Some(2500000))),
     Found(DataOf("Apache-2.0", 100 * TicksPerDay, Some(500000))),
     Found(DataOf("GPL-3.0", 200 * TicksPerDay, Null)),
     Found(DataOf(Absent, 3650 * TicksPerDay, Some(0)))}

BatchInit ==
    /\ dependencies \in Mappings(MaxDeps)
    /\ replies = <<>>
    /\ results = <<>>
    /\ phase = "loop"
    /\ pc = "idle"
    /\ packageName = Absent
    /\ version = Absent
    /\ response = FetchRejected
    /\ license = Absent
    /\ lastRelease = NoTime
    /\ healthScore = 0
    /\ weeklyDownloads = 0
    /\ result = NoResult
    /\ ServerIdle

\* one iteration of the for loop
AnalyzeEntry ==
    /\ phase = "loop"
    /\ Len(results) < Len(dependencies)
    /\ \E reply \in BatchReplies :
         /\ replies' = Append(replies, reply)
         /\ results' = Append(results,
                              entryRecord(dependencies[Len(results) + 1], reply, Clock))
    /\ UNCHANGED <<dependencies, phase>>

\* return results.sort(...)
SortAndReturn ==
    /\ phase = "loop"
    /\ Len(results) = Len(dependencies)
    /\ results' = sortByScore(results)
    /\ phase' = "returned"
    /\ UNCHANGED <<dependencies, replies>>

BatchNext ==
    \/ AnalyzeEntry /\ UNCHANGED <<scorerVars, serverVars>>
    \/ SortAndReturn /\ UNCHANGED <<scorerVars, serverVars>>

SpecScore == ScoreInit /\ [][ScoreNext]_vars

SpecBatch == BatchInit /\ [][BatchNext]_vars

\* the loop computes what the whole call computes
LoopAgrees ==
    phase = "returned" => results = analyzeDependencies(dependencies, replies, Clock)

-----------------------------------------------------------------------------
(* POST /api/analyze, POST /api/analyze/github, GET /api/reports/:auditId *)

\* a parsed package.json: kind "invalid" does not parse, "null" parses to null,
\* "object" is an object whose dependencies / devDependencies may be missing
Manifest(kind, hasDeps, deps, hasDev, dev) ==
    [kind |-> kind, hasDeps |-> hasDeps, deps |-> deps, hasDev |-> hasDev, dev |-> dev]

Manifests ==
    {Manifest("invalid", FALSE, <<>>, FALSE, <<>>),
     Manifest("null", FALSE, <<>>, FALSE, <<>>),
     Manifest("object", FALSE, <<>>, FALSE, <<>>),
     Manifest("object", TRUE, <<>>, FALSE, <<>>),
     Manifest("object", TRUE, <<<<"a", "1.0.0">>>>, TRUE,
              <<<<"b", "1.0.0">>, <<"a", "^2.0.0">>>>)}

hasKey(entries, name) == \E i \in 1..Len(entries) : entries[i][1] = name

lookup(entries, name) ==
    entries[CHOOSE i \in 1..Len(entries) : entries[i][1] = name][2]

\* { ...packageJson.dependencies, ...packageJson.devDependencies }: the keys of
\* dependencies keep their place and take the value devDependencies gives
\* them, the other keys of devDependencies follow; a missing field adds nothing
mergeDependencies(manifest) ==
    LET deps == IF manifest.hasDeps THEN manifest.deps ELSE <<>>
        dev == IF manifest.hasDev THEN manifest.dev ELSE <<>>
        kept == [i \in 1..Len(deps) |->
                   <<deps[i][1],
                     IF hasKey(dev, deps[i][1]) THEN lookup(dev, deps[i][1])
                     ELSE deps[i][2]>>]
    IN kept \o SelectSeq(dev, LAMBDA e : ~hasKey(deps, e[1]))

\* mutant: the check for an empty mapping is gone
noDependenciesNever(merged) == FALSE

\* !dependencies || Object.keys(dependencies).length === 0
noDependencies(merged) == Len(merged) = 0

\* mutant: an identifier that is not unique
uuidv4Constant(n) == 1

\* uuidv4(): an identifier no earlier call returned; n calls were made before
uuidv4(n) == n + 1

ServerReplies == {NotFound, Found(DataOf("MIT", 10 * TicksPerDay, Some(2500000)))}

\* the response ends the handler
Respond(r, code, id) ==
    requests' = [requests EXCEPT ![r].at = "done", ![r].status = code, ![r].body = id]

\* from the parsed manifest to the call of analyzeDependencies, the same in
\* both ingestion handlers
Ingest(r, manifest) ==
    IF manifest.kind # "object"
    THEN Respond(r, 500, 0) /\ UNCHANGED <<auditResults, issued>>
    ELSE LET merged == mergeDependencies(manifest) IN
         IF noDependencies(merged)
         THEN /\ requests' = [requests EXCEPT ![r].at = "done", ![r].status = 400,
                                               ![r].parsed = TRUE,
                                               ![r].dependencies = merged]
              /\ UNCHANGED <<auditResults, issued>>
         ELSE /\ requests' = [requests EXCEPT ![r].at = "analyze", ![r].parsed = TRUE,
                                               ![r].dependencies = merged,
                                               ![r].auditId = uuidv4(issued)]
              /\ issued' = issued + 1
              /\ UNCHANGED auditResults

\* auditResults.set(auditId, report)
storeSet(store, id, report) ==
    [k \in DOMAIN store \cup {id} |-> IF k = id THEN report ELSE store[k]]

\* requests are numbered in the order they arrive
Arrives(r) ==
    /\ requests[r].at = "idle"
    /\ \A q \in 1..(r - 1) : requests[q].at # "idle"

\* POST /api/analyze: the upload arrives
UploadReceive(r) ==
    /\ Arrives(r)
    /\ \E hasFile \in BOOLEAN :
         IF ~hasFile THEN Respond(r, 400, 0)
         ELSE requests' = [requests EXCEPT ![r].route = "upload", ![r].at = "readFile"]
    /\ UNCHANGED <<auditResults, issued, lastGet>>

\* ... await fs.readFile resolves or rejects; JSON.parse; the merge; the check
UploadRead(r) ==
    /\ requests[r].route = "upload"
    /\ requests[r].at = "readFile"
    /\ \/ Respond(r, 500, 0) /\ UNCHANGED <<auditResults, issued>>
       \/ \E manifest \in Manifests : Ingest(r, manifest)
    /\ UNCHANGED lastGet

\* ... await analyzeDependencies resolves; the report is stored; fs.unlink
UploadAnalyzed(r) ==
    /\ requests[r].route = "upload"
    /\ requests[r].at = "analyze"
    /\ \E registry \in [1..Len(requests[r].dependencies) -> ServerReplies] :
         LET got == analyzeDependencies(requests[r].dependencies, registry, Clock) IN
         /\ auditResults' = storeSet(auditResults, requests[r].auditId,
                                     [id |-> requests[r].auditId, timestamp |-> Clock,
                                      totalDependencies |-> Len(requests[r].dependencies),
                                      results |-> got])
         /\ requests' = [requests EXCEPT ![r].at = "unlink", ![r].results = got]
    /\ UNCHANGED <<issued, lastGet>>

\* ... await fs.unlink resolves, and the summary is sent, or rejects
UploadUnlink(r) ==
    /\ requests[r].route = "upload"
    /\ requests[r].at = "unlink"
    /\ \E unlinked \in BOOLEAN :
         IF unlinked THEN Respond(r, 200, requests[r].auditId) ELSE Respond(r, 500, 0)
    /\ UNCHANGED <<auditResults, issued, lastGet>>

\* POST /api/analyze/github: the request arrives
GithubReceive(r) ==
    /\ Arrives(r)
    /\ \E repoUrl \in {"", "https://example.com/x", "https://github.com/o/r"} :
         IF repoUrl = "" \/ repoUrl = "https://example.com/x" THEN Respond(r, 400, 0)
         ELSE requests' = [requests EXCEPT ![r].route = "github", ![r].at = "fetch"]
    /\ UNCHANGED <<auditResults, issued, lastGet>>

\* ... await fetch(packageJsonUrl) resolves or rejects
GithubFetch(r) ==
    /\ requests[r].route = "github"
    /\ requests[r].at = "fetch"
    /\ \E outcome \in {"reject", "not ok", "ok"} :
         IF outcome = "reject" THEN Respond(r, 500, 0)
         ELSE IF outcome = "not ok" THEN Respond(r, 404, 0)
         ELSE requests' = [requests EXCEPT ![r].at = "json"]
    /\ UNCHANGED <<auditResults, issued, lastGet>>

\* ... await response.json(); the merge; the check
GithubJson(r) ==
    /\ requests[r].route = "github"
    /\ requests[r].at = "json"
    /\ \E manifest \in Manifests : Ingest(r, manifest)
    /\ UNCHANGED lastGet

\* ... await analyzeDependencies resolves; the report is stored and sent
GithubAnalyzed(r) ==
    /\ requests[r].route = "github"
    /\ requests[r].at = "analyze"
    /\ \E registry \in [1..Len(requests[r].dependencies) -> ServerReplies] :
         LET got == analyzeDependencies(requests[r].dependencies, registry, Clock) IN
         /\ auditResults' = storeSet(auditResults, requests[r].auditId,
                                     [id |-> requests[r].auditId, timestamp |-> Clock,
                                      repository |-> "o/r",
                                      totalDependencies |-> Len(requests[r].dependencies),
                                      results |-> got])
         /\ requests' = [requests EXCEPT ![r].at = "done", ![r].results = got,
                                         ![r].status = 200,
                                         ![r].body = requests[r].auditId]
    /\ UNCHANGED <<issued, lastGet>>

\* GET /api/reports/:auditId
GetReport(id) ==
    /\ lastGet' = IF id \in DOMAIN auditResults
                  THEN [auditId |-> id, status |-> 200, report |-> auditResults[id]]
                  ELSE [auditId |-> id, status |-> 404, report |-> NoReport]
    /\ UNCHANGED <<auditResults, issued, requests>>

Init ==
    /\ ServerIdle
    /\ pc = "idle"
    /\ packageName = Absent
    /\ version = Absent
    /\ response = FetchRejected
    /\ license = Absent
    /\ lastRelease = NoTime
    /\ healthScore = 0
    /\ weeklyDownloads = 0
    /\ result = NoResult
    /\ dependencies = <<>>
    /\ replies = <<>>
    /\ results = <<>>
    /\ phase = "idle"

Next ==
    \/ \E r \in 1..MaxRequests : UploadReceive(r) /\ UNCHANGED <<scorerVars, batchVars>>
    \/ \E r \in 1..MaxRequests : UploadRead(r) /\ UNCHANGED <<scorerVars, batchVars>>
    \/ \E r \in 1..MaxRequests : UploadAnalyzed(r) /\ UNCHANGED <<scorerVars, batchVars>>
    \/ \E r \in 1..MaxRequests : UploadUnlink(r) /\ UNCHANGED <<scorerVars, batchVars>>
    \/ \E r \in 1..MaxRequests : GithubReceive(r) /\ UNCHANGED <<scorerVars, batchVars>>
    \/ \E r \in 1..MaxRequests : GithubFetch(r) /\ UNCHANGED <<scorerVars, batchVars>>
    \/ \E r \in 1..MaxRequests : GithubJson(r) /\ UNCHANGED <<scorerVars, batchVars>>
    \/ \E r \in 1..MaxRequests : GithubAnalyzed(r) /\ UNCHANGED <<scorerVars, batchVars>>
    \/ \E id \in 1..(issued + 1) : GetReport(id) /\ UNCHANGED <<scorerVars, batchVars>>

Spec == Init /\ [][Next]_vars

-----------------------------------------------------------------------------
(* Properties of analyzePackageHealth, checked under SpecScore *)

\* something went wrong while scoring: the fetch rejects, the status is not a
\* success, the body does not parse, the latest version entry is missing, or
\* the timestamp is missing or invalid
WentWrong(reply) ==
    \/ reply.fetch = "reject"
    \/ ~reply.ok
    \/ ~reply.parses
    \/ ~reply.data.hasVersions
    \/ (IF reply.data.distTags = Absent THEN "latest" ELSE reply.data.distTags)
          \notin DOMAIN reply.data.versions
    \/ reply.data.time.modified.kind = "invalid"
    \/ (reply.data.time.modified.kind = "absent" /\ reply.data.time.created.kind # "date")

\* the call has returned a record
Returned == pc = "done"

\* C2: analyzePackageHealth never fails outward: every call runs on to a
\* returned record, and whenever something went wrong that record is the
\* fallback: the requested name, the declared version, license "Unknown",
\* last_release null, health_score 3.0, error set, and no other field (no
\* maintainers, no downloads).
C2_FallbackOnFailure ==
    /\ pc \in {"fetch", "json", "license", "maintenance", "popularity", "return"}
          => ENABLED ScoreNext
    /\ Returned /\ WentWrong(response) =>
          /\ DOMAIN result = {"dependency", "version", "license", "last_release",
                              "health_score", "error"}
          /\ result.dependency = packageName
          /\ result.version = version
          /\ result.license = "Unknown"
          /\ result.last_release = Null
          /\ result.health_score = 30
          /\ result.error # ""
          /\ "maintainers" \notin DOMAIN result
          /\ "downloads" \notin DOMAIN result

\* the deepest failure: the registry answered, the latest version is there with
\* a license, and only the timestamp is not a date
C2_Witness ==
    /\ Returned
    /\ response.parses
    /\ hasLatestInfo(response.data)
    /\ response.data.time.modified.kind = "invalid"
    /\ license = "MIT"
    /\ "error" \in DOMAIN result

\* C3: every record analyzePackageHealth returns, from the success path or
\* from the fallback, has a health_score in [0, 10] (0..100 tenths), for every
\* combination of license, days since the last release and weekly downloads.
C3_ScoreInRange ==
    Returned => result.health_score >= 0 /\ result.health_score <= 100

\* unknown license, released ten years ago, no downloads: scored, not failed
C3_Witness ==
    /\ Returned
    /\ "error" \notin DOMAIN result
    /\ license = "Unknown"
    /\ Clock - lastRelease.t = 3650 * TicksPerDay
    /\ weeklyDownloads = 0
    /\ result.health_score = 30

\* the popularity step has just run
PopularityRan == pc = "popularity" /\ pc' = "return"

\* weekly downloads as the registry reports them, 0 when it reports none
ReportedDownloads ==
    IF response.data.downloads = Null THEN 0 ELSE response.data.downloads[1]

\* C4 as stated: +1.0 when w > 1,000,000; +0.5 when 100,000 <= w <= 1,000,000,
\* both ends included; 0 when w < 100,000.
C4_PopularityAsStated ==
    [][PopularityRan =>
         LET w == ReportedDownloads IN
         /\ w > 1000000 => healthScore' - healthScore = 100
         /\ (100000 <= w /\ w <= 1000000) => healthScore' - healthScore = 50
         /\ w < 100000 => healthScore' - healthScore = 0]_vars

\* C4, amended: the popularity adjustment is a function of weekly downloads w
\* alone (0 when the registry reports none): +1.0 when w > 1,000,000; +0.5
\* when 100,000 < w <= 1,000,000 (the lower end excluded); 0 when w <= 100,000.
C4_Popularity ==
    [][PopularityRan =>
         LET w == ReportedDownloads IN
         /\ w > 1000000 => healthScore' - healthScore = 100
         /\ (100000 < w /\ w <= 1000000) => healthScore' - healthScore = 50
         /\ w <= 100000 => healthScore' - healthScore = 0]_vars

\* exactly 100,000 weekly downloads have been scored
C4_Witness ==
    /\ pc = "return"
    /\ weeklyDownloads = 100000
    /\ response.data.downloads = Some(100000)

\* the maintenance step has just run on a timestamp that is a date
MaintenanceRan ==
    pc = "maintenance" /\ pc' = "popularity" /\ lastRelease'.kind = "date"

\* ticks elapsed since the last-modified, else created, timestamp
ElapsedTicks ==
    Clock - (IF response.data.time.modified.kind = "absent"
             THEN response.data.time.created.t
             ELSE response.data.time.modified.t)

ReportedLicense ==
    response.data.versions[IF response.data.distTags = Absent THEN "latest"
                           ELSE response.data.distTags]

\* the license adjustment the claim states, in hundredths
StatedLicenseAdjustment(raw) ==
    IF raw \in {"MIT", "ISC", "BSD-3-Clause"} THEN 200
    ELSE IF raw = "Apache-2.0" THEN 150
    ELSE IF raw = "Unknown" \/ raw = Absent \/ raw = "" THEN -100
    ELSE 0

-----------------------------------------------------------------------------
(* Properties of analyzeDependencies, checked under SpecBatch *)

\* the registry lookup of the record's package failed
Failed(r) == "error" \in DOMAIN r

\* C1: for every non-empty mapping and every combination of per-package
\* outcomes, analyzeDependencies completes and returns exactly one record per
\* entry: as many records as entries, and each entry's name is the dependency
\* of exactly one record, which carries the version declared for it.  (The
\* call is never stuck: inside the loop the records never outnumber the
\* entries, so the next iteration or the return can run, whatever the reply.)
C1_OneRecordPerEntry ==
    /\ phase \in {"loop", "returned"}
    /\ phase = "loop" =>
          /\ Len(results) <= Len(dependencies)
          /\ \A i \in 1..Len(results) : results[i].dependency = dependencies[i][1]
    /\ phase = "returned" /\ dependencies # <<>> =>
          /\ Len(results) = Len(dependencies)
          /\ \A i \in 1..Len(dependencies) :
                /\ Cardinality({j \in 1..Len(results) :
                                  results[j].dependency = dependencies[i][1]}) = 1
                /\ \A j \in 1..Len(results) :
                      results[j].dependency = dependencies[i][1]
                         => results[j].version = dependencies[i][2]

\* a full batch whose entries partly failed and partly succeeded, declared
\* with different versions
C1_Witness ==
    /\ phase = "returned"
    /\ Len(dependencies) = MaxDeps
    /\ \E i, j \in 1..Len(results) :
          /\ Failed(results[i])
          /\ ~Failed(results[j])
          /\ results[i].version # results[j].version

\* C7: the returned sequence is ordered by non-increasing health_score, for
\* every iteration order and whichever entries failed; a failed entry stands
\* where its score 3.0 puts it, behind every entry that scored more.
C7_SortedDescending ==
    phase = "returned" =>
       /\ \A i \in 1..(Len(results) - 1) :
             results[i].health_score >= results[i + 1].health_score
       /\ \A i, j \in 1..Len(results) :
             (Failed(results[i]) /\ results[j].health_score > 30) => j < i
       /\ \A i \in 1..Len(results) : Failed(results[i]) => results[i].health_score = 30

\* the first entry failed and a later one scored more: the sort moved it back
C7_Witness ==
    /\ phase = "returned"
    /\ Len(results) >= 2
    /\ replies[1] = NotFound
    /\ results[1].dependency # dependencies[1][1]
    /\ results[1].health_score > results[Len(results)].health_score
    /\ Failed(results[Len(results)])

-----------------------------------------------------------------------------
(* Properties of the handlers and the audit store, checked under Spec *)

\* the request's analysis has completed (its report was stored right then)
Analysed(r) == requests[r].auditId # 0 /\ requests[r].at \in {"unlink", "done"}

\* C8: under every interleaving of the ingestion requests at their I/O waits,
\* each completed analysis has put exactly one report into the store, under a
\* key no other request uses, and no entry is ever overwritten, changed or
\* removed: the report stored for a request stays the one that request
\* computed, and what a GET /api/reports/:auditId once returned for an
\* identifier is what the store holds for it ever after.
C8_StoreInsertOnly ==
    /\ \A r \in 1..MaxRequests :
          Analysed(r) =>
             /\ requests[r].auditId \in DOMAIN auditResults
             /\ auditResults[requests[r].auditId].id = requests[r].auditId
             /\ auditResults[requests[r].auditId].results = requests[r].results
             /\ auditResults[requests[r].auditId].totalDependencies
                   = Len(requests[r].dependencies)
             /\ auditResults[requests[r].auditId].timestamp = Clock
    /\ \A r, q \in 1..MaxRequests :
          (r # q /\ requests[r].auditId # 0) => requests[r].auditId # requests[q].auditId
    /\ Cardinality(DOMAIN auditResults)
          = Cardinality({r \in 1..MaxRequests : Analysed(r)})
    /\ lastGet.status = 200 =>
          /\ lastGet.auditId \in DOMAIN auditResults
          /\ lastGet.report = auditResults[lastGet.auditId]
          /\ lastGet.report.id = lastGet.auditId

\* two concurrent requests, one on each endpoint, took their identifiers in
\* the opposite order of their arrival, stored different reports, and a GET
\* has returned the first identifier's report
C8_Witness ==
    /\ Analysed(1)
    /\ Analysed(2)
    /\ requests[1].route # requests[2].route
    /\ requests[1].auditId = 2
    /\ requests[2].auditId = 1
    /\ requests[1].results # requests[2].results
    /\ lastGet.status = 200
    /\ lastGet.auditId = 1

\* the manifest of the request parsed to an object whose merged dependency
\* mapping is missing or empty
EmptyManifest(r) == requests[r].parsed /\ requests[r].dependencies = <<>>

\* C9: a manifest whose merged dependency mapping is missing or empty is
\* rejected before the core, on both ingestion endpoints: the request is
\* answered 400, analyzeDependencies is never invoked for it, no audit
\* identifier is issued, and the step that rejects it leaves the store as it was.
C9_EmptyRejected ==
    /\ [](\A r \in 1..MaxRequests :
            EmptyManifest(r) =>
               /\ requests[r].at = "done"
               /\ requests[r].status = 400
               /\ requests[r].auditId = 0
               /\ requests[r].body = 0
               /\ requests[r].results = <<>>)
    /\ [][\A r \in 1..MaxRequests :
            (~requests[r].parsed /\ requests'[r].parsed
                  /\ requests'[r].dependencies = <<>>) =>
               /\ auditResults' = auditResults
               /\ issued' = issued]_vars

\* an empty manifest was rejected on each endpoint
C9_Witness ==
    /\ EmptyManifest(1)
    /\ EmptyManifest(2)
    /\ requests[1].route = "upload"
    /\ requests[2].route = "github"
    /\ requests[1].status = 400
    /\ requests[2].status = 400

\* C10: an ingestion request answered with an error status (400, 404, 500)
\* has left no report in the audit store: a report is in the store for a
\* request only if that request was answered 200 with the report's auditId,
\* also when a step after the analysis (deleting the uploaded file) fails.
C10_ErrorLeavesNoReport ==
    \A r \in 1..MaxRequests :
       (requests[r].at = "done" /\ requests[r].status \in {400, 404, 500})
          => requests[r].auditId \notin DOMAIN auditResults

====
